---- MODULE Spec2Model ----
(***************************************************************************)
(* DeepTrust: the analyze-media edge handler and the multimodal            *)
(* consistency check (the handler's inline module and the client's         *)
(* computeConsistencyCheck).                                               *)
(*                                                                         *)
(* Numbers are JavaScript Numbers.  Scores and trust scores are integers   *)
(* here; the normalised scores x / 100 and their difference are IEEE-754   *)
(* binary64 values, kept exactly as fixed-point numbers in limbs of        *)
(* LimbBits bits and rounded to MantBits significant bits, ties to even.   *)
(***************************************************************************)
EXTENDS Integers, Sequences, FiniteSets, TLC

VARIABLES
  pc,         \* position of the serve handler: idle, fetching, done
  apiKey,     \* Deno.env LOVABLE_API_KEY is configured
  request,    \* the request being served
  outbound,   \* the calls made to the upstream model, in order
  upstream,   \* what the upstream call settled with
  response,   \* the Response the handler returned
  fnIn,       \* the scores one run of the consistency check starts from
  fnRun,      \* that run: who ran it, its arguments, what it returned
  file,       \* MediaUpload: the selected file
  preview,    \* MediaUpload: the name of the file whose preview is shown, or ""
  readers,    \* the preview reads that have not loaded yet
  isAnalyzing, \* useMediaAnalysis: an analysis is running
  result,     \* useMediaAnalysis: << >> is null
  error,      \* useMediaAnalysis: << >> is null
  calls       \* the analyzeMedia calls made, in order

vars ==
  <<pc, apiKey, request, outbound, upstream, response, fnIn, fnRun,
    file, preview, readers, isAnalyzing, result, error, calls>>

handlerVars == <<pc, apiKey, request, outbound, upstream, response>>
fnVars == <<fnIn, fnRun>>
uiVars == <<file, preview, readers, isAnalyzing, result, error, calls>>

---------------------------------------------------------------------------
(* Bounds of the model.                                                    *)

\* Modality scores range over 0..MaxScore.
MaxScore == 100

\* At most MaxCalls analyses are started on the page.
MaxCalls == 2

---------------------------------------------------------------------------
(* JavaScript values: an optional number is a record; has = FALSE is       *)
(* undefined / null.                                                       *)

None == [has |-> FALSE, val |-> 0]
Some(n) == [has |-> TRUE, val |-> n]

\* Mutant: 0 is kept, as under ??.
OrElse_Nullish(x, y) == IF x.has THEN x ELSE y

\* x || y on numbers: undefined, null and 0 are falsy.
OrElse(x, y) == IF x.has /\ x.val # 0 THEN x ELSE y

\* x ?? y: only undefined and null fall through.
Coalesce(x, y) == IF x.has THEN x ELSE y

\* Mutant: no upper limit.
Clamp_NoUpper(x) == IF x < 0 THEN 0 ELSE x

\* Math.min(100, Math.max(0, x))
Clamp(x) == IF x < 0 THEN 0 ELSE IF x > 100 THEN 100 ELSE x

---------------------------------------------------------------------------
(* IEEE-754 binary64 arithmetic on the values the check uses.  A magnitude *)
(* is a tuple of GridLimbs limbs, most significant first: limb 1 is the    *)
(* integer part, the others are LimbBits fraction bits each.               *)

MantBits == 53
LimbBits == 20
GridLimbs == 4
Base == 2 ^ LimbBits

Pow2(k) == 2 ^ k

Log2(x) == CHOOSE k \in 0..(LimbBits - 1) : Pow2(k) <= x /\ x < Pow2(k + 1)

RECURSIVE Zeros(_)
Zeros(k) == IF k = 0 THEN <<>> ELSE <<0>> \o Zeros(k - 1)

\* Long division of num by den, one limb a step, most significant first.
RECURSIVE DivLimbs(_, _, _)
DivLimbs(rem, den, k) ==
  IF k = 0 THEN <<>>
  ELSE <<rem \div den>> \o DivLimbs((rem % den) * Base, den, k - 1)

\* What the long division leaves after k limbs.
RECURSIVE DivRem(_, _, _)
DivRem(rem, den, k) ==
  IF k = 0 THEN rem ELSE DivRem((rem % den) * Base, den, k - 1)

FirstNonzero(L) ==
  IF \A i \in 1..Len(L) : L[i] = 0 THEN 0
  ELSE CHOOSE i \in 1..Len(L) : L[i] # 0 /\ \A j \in 1..(i - 1) : L[j] = 0

\* Add inc to limb idx, the carry running into the more significant limbs.
RECURSIVE AddAt(_, _, _)
AddAt(L, idx, inc) ==
  IF idx = 0 THEN L
  ELSE LET t == L[idx] + inc
       IN IF t >= Base THEN AddAt([L EXCEPT ![idx] = t - Base], idx - 1, 1)
          ELSE [L EXCEPT ![idx] = t]

\* Round the magnitude L (sticky: something nonzero lies below its last
\* limb) to MantBits significant bits, to nearest, ties to even.
RoundNearestEven(L, sticky) ==
  LET n == Len(L)
      f == FirstNonzero(L)
  IN IF f = 0 THEN L
     ELSE LET s == LimbBits * (n - f) + Log2(L[f]) - (MantBits - 1)
          IN IF s <= 0 THEN L
             ELSE LET q == s \div LimbBits
                      o == s % LimbBits
                      idx == n - q
                      low == L[idx] % Pow2(o)
                      top == IF o >= 1 THEN low ELSE L[idx + 1]
                      halfv == IF o >= 1 THEN Pow2(o - 1) ELSE Pow2(LimbBits - 1)
                      from == IF o >= 1 THEN idx + 1 ELSE idx + 2
                      restZero == ~sticky /\ \A i \in from..n : L[i] = 0
                      lsb == (L[idx] \div Pow2(o)) % 2
                      up == \/ top > halfv
                            \/ top = halfv /\ ~restZero
                            \/ top = halfv /\ restZero /\ lsb = 1
                      kept == SubSeq(L, 1, idx - 1) \o <<L[idx] - low>> \o Zeros(n - idx)
                  IN IF up THEN AddAt(kept, idx, Pow2(o)) ELSE kept

Abs(x) == IF x < 0 THEN -x ELSE x

\* num / den for integers, den > 0: the binary64 nearest to the quotient.
FDiv(num, den) ==
  [neg |-> num < 0,
   mag |-> SubSeq(RoundNearestEven(DivLimbs(Abs(num), den, GridLimbs + 1),
                                   DivRem(Abs(num), den, GridLimbs + 1) # 0),
                  1, GridLimbs)]

RECURSIVE MagLessFrom(_, _, _)
MagLessFrom(a, b, i) ==
  IF i > GridLimbs THEN FALSE
  ELSE IF a[i] # b[i] THEN a[i] < b[i]
  ELSE MagLessFrom(a, b, i + 1)

MagLess(a, b) == MagLessFrom(a, b, 1)

RECURSIVE SubLimbs(_, _, _, _)
SubLimbs(a, b, i, borrow) ==
  IF i = 0 THEN <<>>
  ELSE LET t == a[i] - b[i] - borrow
       IN Append(SubLimbs(a, b, i - 1, IF t < 0 THEN 1 ELSE 0),
                 IF t < 0 THEN t + Base ELSE t)

RECURSIVE AddLimbs(_, _, _, _)
AddLimbs(a, b, i, carry) ==
  IF i = 0 THEN <<>>
  ELSE LET t == a[i] + b[i] + carry
       IN Append(AddLimbs(a, b, i - 1, IF i > 1 /\ t >= Base THEN 1 ELSE 0),
                 IF i > 1 /\ t >= Base THEN t - Base ELSE t)

\* Math.abs(x - y): the rounded difference, its sign dropped.
FAbsDiff(x, y) ==
  [neg |-> FALSE,
   mag |-> IF x.neg # y.neg THEN RoundNearestEven(AddLimbs(x.mag, y.mag, GridLimbs, 0), FALSE)
           ELSE IF MagLess(x.mag, y.mag)
                THEN RoundNearestEven(SubLimbs(y.mag, x.mag, GridLimbs, 0), FALSE)
                ELSE RoundNearestEven(SubLimbs(x.mag, y.mag, GridLimbs, 0), FALSE)]

\* x >= y for a non-negative x and a positive constant y.
FGeq(x, y) == ~MagLess(x.mag, y.mag)

FZero == [neg |-> FALSE, mag |-> Zeros(GridLimbs)]

---------------------------------------------------------------------------
(* Strings the code inspects are tuples of tokens: <<>> is the empty       *)
(* string, <<"data:", ...>> starts with "data:".                           *)

NoStr == [has |-> FALSE, str |-> <<>>]
Str(t) == [has |-> TRUE, str |-> t]

\* !x on an optional string: undefined and "" are falsy.
Truthy(x) == x.has /\ Len(x.str) > 0

StartsWithData(t) == Len(t) > 0 /\ t[1] = "data:"

---------------------------------------------------------------------------
(* The fields of the model's reply (analysisData) the handler reads for    *)
(* the trust score and the modality scores.                                *)

AnalysisData(trust, visual, structural, coherence, audio, voice, temporal, frames, uflag) ==
  [trustScore |-> trust,
   visualScore |-> visual,            \* modalityBreakdown.visual?.score
   structuralScore |-> structural,    \* modalityBreakdown.structural?.score
   graphCoherence |-> coherence,      \* graphStats?.graphCoherence
   audioScore |-> audio,              \* modalityBreakdown.audio?.score
   voiceConsistency |-> voice,        \* audioFindings?.voiceConsistency
   temporalScore |-> temporal,        \* modalityBreakdown.temporal?.score
   frameConsistency |-> frames,       \* temporalAnalysis?.frameConsistency
   uncertaintyFlag |-> uflag]


\* analysisData.robustnessAnalysis: the five numbers the handler reads.
RobustnessAnalysis(clean, compression, degradation, motion, noise) ==
  [cleanConfidence |-> clean,
   compressionResilience |-> compression,
   degradationResilience |-> degradation,
   motionSensitivity |-> motion,
   noiseTolerance |-> noise]

NoRobustness == RobustnessAnalysis(None, None, None, None, None)

\* The rest of the reply.  A string field is "" when absent or empty (both
\* are falsy); a list is a tuple, << >> when absent or empty; hasMetadata is
\* "undefined", "true" or "false", the one field read with ??.
ReplyDetails(keypoints, suspicious, hasMetadata, observations, anomalies) ==
  [keypointsDetected |-> keypoints,       \* graphStats?.keypointsDetected
   suspiciousNodes |-> suspicious,        \* graphStats?.suspiciousNodes
   verdict |-> "",
   uncertaintyReason |-> "",
   ganDetected |-> FALSE,                 \* ganFingerprints?.detected
   ganPatterns |-> << >>,
   ganConfidence |-> None,
   laplacianVariance |-> "",              \* textureAnalysis?.laplacianVariance
   smoothnessAnomalies |-> FALSE,
   noiseConsistency |-> "",
   hasMetadata |-> hasMetadata,           \* metadataAnalysis?.hasMetadata
   metadataSuspicious |-> FALSE,
   metadataFindings |-> << >>,
   observations |-> observations,
   heatmapData |-> << >>,
   anomalyRegions |-> << >>,              \* audioFindings?.anomalyRegions
   temporalAnomalies |-> anomalies]       \* temporalAnalysis?.temporalAnomalies

NoDetails == ReplyDetails(None, None, "undefined", << >>, << >>)

\* The parsed reply: the fields above in one record.
Reply(ad, ra, details) == ad @@ ra @@ details

\* x || y on strings.
StrOr(x, y) == IF x = "" THEN y ELSE x

\* Math.max(a, b) and Math.min(a, b)
Max(a, b) == IF a >= b THEN a ELSE b
Min(a, b) == IF a <= b THEN a ELSE b

\* xs.slice(0, n)
Slice(xs, n) == SubSeq(xs, 1, Min(Len(xs), n))

\* Mutant: an unknown type falls to "video".
detectedMediaType_VideoDefault(mediaType) ==
  IF mediaType = "image" THEN "image"
  ELSE IF mediaType = "audio" THEN "audio"
  ELSE "video"

detectedMediaType(mediaType) ==
  IF mediaType = "video" THEN "video"
  ELSE IF mediaType = "audio" THEN "audio"
  ELSE "image"

\* One entry of modalityScores; the weight is in hundredths.
ModalityScore(m, s, w) == [modality |-> m, score |-> s, weight |-> w]

\* Mutant: the temporal entry is added for audio as well.
modalityScores_AudioTemporal(ad, detected) ==
  << ModalityScore("visual",
                   OrElse(ad.visualScore, OrElse(ad.trustScore, Some(75))).val, 35),
     ModalityScore("structural",
                   OrElse(ad.structuralScore, OrElse(ad.graphCoherence, Some(80))).val, 25) >>
  \o (IF detected # "image"
      THEN << ModalityScore("audio",
                            OrElse(ad.audioScore, OrElse(ad.voiceConsistency, Some(80))).val, 20) >>
      ELSE << >>)
  \o (IF detected # "image"
      THEN << ModalityScore("temporal",
                            OrElse(ad.temporalScore, OrElse(ad.frameConsistency, Some(82))).val, 20) >>
      ELSE << >>)

modalityScores(ad, detected) ==
  << ModalityScore("visual",
                   OrElse(ad.visualScore, OrElse(ad.trustScore, Some(75))).val, 35),
     ModalityScore("structural",
                   OrElse(ad.structuralScore, OrElse(ad.graphCoherence, Some(80))).val, 25) >>
  \o (IF detected # "image"
      THEN << ModalityScore("audio",
                            OrElse(ad.audioScore, OrElse(ad.voiceConsistency, Some(80))).val, 20) >>
      ELSE << >>)
  \o (IF detected = "video"
      THEN << ModalityScore("temporal",
                            OrElse(ad.temporalScore, OrElse(ad.frameConsistency, Some(82))).val, 20) >>
      ELSE << >>)


\* Mutant: the clamp is missing.
trustScoreOf_NoClamp(ad) == OrElse(ad.trustScore, Some(50)).val

trustScoreOf(ad) == Clamp(OrElse(ad.trustScore, Some(50)).val)

\* Mutant: only the flag of the reply counts.
uncertaintyFlagOf_ReplyOnly(ad) == ad.uncertaintyFlag

uncertaintyFlagOf(ad) ==
  ad.uncertaintyFlag \/ (trustScoreOf(ad) >= 40 /\ trustScoreOf(ad) <= 70)

\* UncertaintyIndicator: it renders when isUncertain, else returns null.
isUncertain(trustScore, uncertaintyFlag) ==
  uncertaintyFlag \/ (trustScore >= 40 /\ trustScore <= 70)

riskLevelOf(trustScore) ==
  IF trustScore >= 70 THEN "low" ELSE IF trustScore >= 40 THEN "medium" ELSE "high"

\* modalityScores.find(m => m.modality === name)?.score
FindScore(ms, name) ==
  IF \E i \in 1..Len(ms) : ms[i].modality = name
  THEN Some(ms[CHOOSE i \in 1..Len(ms) :
                  ms[i].modality = name /\ \A j \in 1..(i - 1) : ms[j].modality # name].score)
  ELSE None

---------------------------------------------------------------------------
(* The multimodal consistency check.                                       *)

\* The literals 0.15 and 0.30: the binary64 nearest to each.
LOW_DISAGREEMENT == FDiv(15, 100)
HIGH_DISAGREEMENT == FDiv(30, 100)

\* The explanation of each branch, by its first sentence; the handler and the
\* client use the same four texts.
ExplainSingle == "Single modality analysis - consistency check not applicable."
ExplainInconsistent == "Audio and visual signals show conflicting authenticity patterns."
ExplainPartial == "Audio and visual signals show some variation."
ExplainConsistent == "Audio and visual signals agree."


\* Mutant: the lower threshold is tested first.
InlineBand_LowFirst(disagreement) ==
  IF FGeq(disagreement, LOW_DISAGREEMENT)
  THEN [consistencyStatus |-> "partially_consistent", confidenceModifier |-> -7,
        explanation |-> ExplainPartial]
  ELSE IF FGeq(disagreement, HIGH_DISAGREEMENT)
  THEN [consistencyStatus |-> "inconsistent", confidenceModifier |-> -15,
        explanation |-> ExplainInconsistent]
  ELSE [consistencyStatus |-> "consistent", confidenceModifier |-> 0,
        explanation |-> ExplainConsistent]

\* The if / else-if / else chain on the disagreement, in the handler.
InlineBand(disagreement) ==
  IF FGeq(disagreement, HIGH_DISAGREEMENT)
  THEN [consistencyStatus |-> "inconsistent", confidenceModifier |-> -15,
        explanation |-> ExplainInconsistent]
  ELSE IF FGeq(disagreement, LOW_DISAGREEMENT)
  THEN [consistencyStatus |-> "partially_consistent", confidenceModifier |-> -7,
        explanation |-> ExplainPartial]
  ELSE [consistencyStatus |-> "consistent", confidenceModifier |-> 0,
        explanation |-> ExplainConsistent]

\* The handler's inline module; trustScore is the handler's clamped score.
multimodalConsistency(trustScore, detected, ms) ==
  LET visualScore == Coalesce(FindScore(ms, "visual"), Some(trustScore)).val
      audioScore == FindScore(ms, "audio")
  IN IF ~audioScore.has \/ detected = "image"
     THEN [consistencyStatus |-> "single_modality",
           visualScore |-> visualScore,
           audioScore |-> None,
           disagreement |-> FZero,
           confidenceModifier |-> 0,
           adjustedConfidence |-> trustScore,
           explanation |-> ExplainSingle]
     ELSE LET disagreement == FAbsDiff(FDiv(visualScore, 100), FDiv(audioScore.val, 100))
              band == InlineBand(disagreement)
          IN [consistencyStatus |-> band.consistencyStatus,
              visualScore |-> visualScore,
              audioScore |-> audioScore,
              disagreement |-> disagreement,
              confidenceModifier |-> band.confidenceModifier,
              adjustedConfidence |-> Clamp(trustScore + band.confidenceModifier),
              explanation |-> band.explanation]


\* Mutant: the client takes 10 points off an inconsistent pair.
ClientBand_Modifier10(disagreement) ==
  IF FGeq(disagreement, HIGH_DISAGREEMENT)
  THEN [consistencyStatus |-> "inconsistent", confidenceModifier |-> -10,
        explanation |-> ExplainInconsistent]
  ELSE IF FGeq(disagreement, LOW_DISAGREEMENT)
  THEN [consistencyStatus |-> "partially_consistent", confidenceModifier |-> -7,
        explanation |-> ExplainPartial]
  ELSE [consistencyStatus |-> "consistent", confidenceModifier |-> 0,
        explanation |-> ExplainConsistent]

\* Mutant: the lower threshold is 0.20.
ClientBand_Low20(disagreement) ==
  IF FGeq(disagreement, HIGH_DISAGREEMENT)
  THEN [consistencyStatus |-> "inconsistent", confidenceModifier |-> -15,
        explanation |-> ExplainInconsistent]
  ELSE IF FGeq(disagreement, FDiv(20, 100))
  THEN [consistencyStatus |-> "partially_consistent", confidenceModifier |-> -7,
        explanation |-> ExplainPartial]
  ELSE [consistencyStatus |-> "consistent", confidenceModifier |-> 0,
        explanation |-> ExplainConsistent]

\* Mutant: the lower threshold is 0.10.
ClientBand_Low10(disagreement) ==
  IF FGeq(disagreement, HIGH_DISAGREEMENT)
  THEN [consistencyStatus |-> "inconsistent", confidenceModifier |-> -15,
        explanation |-> ExplainInconsistent]
  ELSE IF FGeq(disagreement, FDiv(10, 100))
  THEN [consistencyStatus |-> "partially_consistent", confidenceModifier |-> -7,
        explanation |-> ExplainPartial]
  ELSE [consistencyStatus |-> "consistent", confidenceModifier |-> 0,
        explanation |-> ExplainConsistent]

\* The same chain in the client's computeConsistencyCheck.
ClientBand(disagreement) ==
  IF FGeq(disagreement, HIGH_DISAGREEMENT)
  THEN [consistencyStatus |-> "inconsistent", confidenceModifier |-> -15,
        explanation |-> ExplainInconsistent]
  ELSE IF FGeq(disagreement, LOW_DISAGREEMENT)
  THEN [consistencyStatus |-> "partially_consistent", confidenceModifier |-> -7,
        explanation |-> ExplainPartial]
  ELSE [consistencyStatus |-> "consistent", confidenceModifier |-> 0,
        explanation |-> ExplainConsistent]

computeConsistencyCheck(trustScore, mediaType, ms) ==
  LET visualScore == Coalesce(FindScore(ms, "visual"), Some(trustScore)).val
      audioScore == FindScore(ms, "audio")
  IN IF ~audioScore.has \/ mediaType = "image"
     THEN [consistencyStatus |-> "single_modality",
           visualScore |-> visualScore,
           audioScore |-> None,
           disagreement |-> FZero,
           confidenceModifier |-> 0,
           adjustedConfidence |-> Clamp(trustScore),
           explanation |-> ExplainSingle]
     ELSE LET disagreement == FAbsDiff(FDiv(visualScore, 100), FDiv(audioScore.val, 100))
              band == ClientBand(disagreement)
          IN [consistencyStatus |-> band.consistencyStatus,
              visualScore |-> visualScore,
              audioScore |-> audioScore,
              disagreement |-> disagreement,
              confidenceModifier |-> band.confidenceModifier,
              adjustedConfidence |-> Clamp(trustScore + band.confidenceModifier),
              explanation |-> band.explanation]

---------------------------------------------------------------------------
(* The other parts of the result.  Times are in hundredths of a second,    *)
(* a severity in tenths, an intensity in hundredths, Math.random() in      *)
(* twentieths (0..19), so that every value below is an integer.            *)

\* (analysisData.heatmapData || []).map(...)
heatmapRegions(ad) ==
  [i \in 1..Len(ad.heatmapData) |->
     LET h == ad.heatmapData[i]
     IN [x |-> OrElse(h.x, Some(200)).val,
         y |-> OrElse(h.y, Some(140)).val,
         radius |-> OrElse(h.radius, Some(30)).val,
         intensity |-> Min(100, Max(0, OrElse(h.intensity, Some(30)).val)),
         label |-> h.label]]

\* (analysisData.audioFindings?.anomalyRegions || []).map(...)
audioAnomalies(ad) ==
  [i \in 1..Len(ad.anomalyRegions) |->
     LET a == ad.anomalyRegions[i]
     IN [start |-> OrElse(a.start, Some(0)).val,
         end |-> OrElse(a.end, Some(10)).val,
         severity |-> StrOr(a.severity, "low")]]

\* The frames mapped from the reply's temporal anomalies.
GivenFrames(ad) ==
  [i \in 1..Len(ad.temporalAnomalies) |->
     LET t == ad.temporalAnomalies[i]
         idx == i - 1
     IN [frameNumber |-> idx,
         timestamp |-> OrElse(t.timestamp, Some(idx * 50)).val,
         confidence |-> 100 - OrElse(t.severity, Some(5)).val * 5,
         anomalyType |-> StrOr(t.type, "null")]]

\* Mutant: every number is pushed, present or not.
MissingFrom_All(fs, i) == [j \in 1..(30 - i) |-> i + j - 1]

\* The frame numbers 0..29 no frame of fs carries, in increasing order.
RECURSIVE MissingFrom(_, _)
MissingFrom(fs, i) ==
  IF i >= 30 THEN << >>
  ELSE (IF \E k \in 1..Len(fs) : fs[k].frameNumber = i THEN << >> ELSE << i >>)
       \o MissingFrom(fs, i + 1)

\* The frame pushed for number i with the draw r of Math.random().
SyntheticFrame(i, baseConfidence, r) ==
  [frameNumber |-> i,
   timestamp |-> i * 33,
   confidence |-> Min(100, Max(30, baseConfidence + (r - 10))),
   anomalyType |-> "null"]

\* frameAnalysis.sort((a, b) => a.frameNumber - b.frameNumber): a stable
\* sort, as an insertion sort.
InsertFrame(f, sorted) ==
  LET p == Cardinality({ k \in 1..Len(sorted) : sorted[k].frameNumber <= f.frameNumber })
  IN SubSeq(sorted, 1, p) \o << f >> \o SubSeq(sorted, p + 1, Len(sorted))

RECURSIVE SortFrames(_, _)
SortFrames(fs, n) == IF n = 0 THEN << >> ELSE InsertFrame(fs[n], SortFrames(fs, n - 1))

\* random is the tuple of the draws of Math.random(), in the order made.
frameAnalysis(ad, random) ==
  LET given == GivenFrames(ad)
  IN IF Len(given) < 10
     THEN LET baseConfidence == OrElse(ad.trustScore, Some(75)).val
              missing == MissingFrom(given, 0)
              pushed == [j \in 1..Len(missing) |->
                           SyntheticFrame(missing[j], baseConfidence, random[j])]
              all == given \o pushed
          IN SortFrames(all, Len(all))
     ELSE given

\* (analysisData.observations || []).slice(0, limit).map(...)
observations(ad, limit) ==
  LET kept == Slice(ad.observations, limit)
  IN [i \in 1..Len(kept) |->
        [type |-> StrOr(kept[i].type, "neutral"),
         title |-> StrOr(kept[i].title, "Observation"),
         description |-> kept[i].description]]

\* Mutant: a drift on the threshold is a warning.
DriftRow_Strict(mode, description, clean, resilience, fallback, threshold) ==
  LET drift == OrElse(resilience, Some(fallback)).val
  IN [mode |-> mode,
      description |-> description,
      confidence |-> Max(40, OrElse(clean, Some(85)).val + drift),
      drift |-> drift,
      status |-> IF Abs(drift) < threshold THEN "pass" ELSE "warning"]

\* A row of robustnessTests other than Clean: drift = resilience || fallback.
DriftRow(mode, description, clean, resilience, fallback, threshold) ==
  LET drift == OrElse(resilience, Some(fallback)).val
  IN [mode |-> mode,
      description |-> description,
      confidence |-> Max(40, OrElse(clean, Some(85)).val + drift),
      drift |-> drift,
      status |-> IF Abs(drift) <= threshold THEN "pass" ELSE "warning"]

robustnessTests(ad) ==
  << [mode |-> "Clean",
      description |-> "Baseline reference analysis",
      confidence |-> OrElse(ad.cleanConfidence, OrElse(ad.trustScore, Some(85))).val,
      drift |-> 0,
      status |-> "pass"],
     DriftRow("Compressed", "JPEG compression at 60% quality",
              ad.cleanConfidence, ad.compressionResilience, -5, 10),
     DriftRow("Degraded", "Low-quality capture simulation",
              ad.cleanConfidence, ad.degradationResilience, -8, 12),
     DriftRow("Motion", "Motion blur applied",
              ad.cleanConfidence, ad.motionSensitivity, -18, 15),
     DriftRow("Noise", "Gaussian noise injection",
              ad.cleanConfidence, ad.noiseTolerance, -7, 10) >>

\* Math.floor(k * 1.6) is the integer quotient of 16 k by 10.
graphStats(ad) ==
  [keypointsDetected |-> OrElse(ad.keypointsDetected, Some(24)).val,
   edgeConnections |-> (OrElse(ad.keypointsDetected, Some(24)).val * 16) \div 10,
   suspiciousNodes |-> OrElse(ad.suspiciousNodes, Some(0)).val,
   graphCoherence |-> OrElse(ad.graphCoherence, Some(90)).val]

\* Math.round(analysisTime * 10) / 10, in tenths of a second, from the
\* milliseconds between startTime and the parsed reply.
analysisTimeOf(elapsed) == (elapsed + 50) \div 100

\* What the handler takes from its environment while it builds a result:
\* the milliseconds elapsed and the draws of Math.random().
Env(elapsed, random) == [elapsed |-> elapsed, random |-> random]

\* Mutant: the penalty is taken off the trust score of the result.
AnalysisResult_Penalised(ad, mediaType, env) ==
  LET detected == detectedMediaType(mediaType)
      ms == modalityScores(ad, detected)
      trustScore == trustScoreOf(ad)
      uncertaintyFlag == uncertaintyFlagOf(ad)
  IN [trustScore |-> multimodalConsistency(trustScore, detected, ms).adjustedConfidence,
      riskLevel |-> riskLevelOf(trustScore),
      verdict |-> StrOr(ad.verdict, "Analysis Complete"),
      analysisTime |-> analysisTimeOf(env.elapsed),
      mediaType |-> detected,
      uncertaintyFlag |-> uncertaintyFlag,
      uncertaintyReason |->
        StrOr(ad.uncertaintyReason,
              IF uncertaintyFlag
              THEN "Score in uncertain range - manual review recommended" ELSE ""),
      ganFingerprints |-> [detected |-> ad.ganDetected,
                           patterns |-> ad.ganPatterns,
                           confidence |-> OrElse(ad.ganConfidence, Some(75)).val],
      textureAnalysis |-> [laplacianVariance |-> StrOr(ad.laplacianVariance, "normal"),
                           smoothnessAnomalies |-> ad.smoothnessAnomalies,
                           noiseConsistency |-> StrOr(ad.noiseConsistency, "consistent")],
      metadataAnalysis |-> [hasMetadata |-> ad.hasMetadata # "false",
                            suspicious |-> ad.metadataSuspicious,
                            findings |-> ad.metadataFindings],
      observations |-> observations(ad, 8),
      robustnessTests |-> robustnessTests(ad),
      graphStats |-> graphStats(ad),
      heatmapRegions |-> heatmapRegions(ad),
      audioAnomalies |-> audioAnomalies(ad),
      frameAnalysis |-> frameAnalysis(ad, env.random),
      modalityScores |-> ms,
      multimodalConsistency |-> multimodalConsistency(trustScore, detected, ms)]

\* The AnalysisResult the handler builds from the parsed reply.
AnalysisResult(ad, mediaType, env) ==
  LET detected == detectedMediaType(mediaType)
      ms == modalityScores(ad, detected)
      trustScore == trustScoreOf(ad)
      uncertaintyFlag == uncertaintyFlagOf(ad)
  IN [trustScore |-> trustScore,
      riskLevel |-> riskLevelOf(trustScore),
      verdict |-> StrOr(ad.verdict, "Analysis Complete"),
      analysisTime |-> analysisTimeOf(env.elapsed),
      mediaType |-> detected,
      uncertaintyFlag |-> uncertaintyFlag,
      uncertaintyReason |->
        StrOr(ad.uncertaintyReason,
              IF uncertaintyFlag
              THEN "Score in uncertain range - manual review recommended" ELSE ""),
      ganFingerprints |-> [detected |-> ad.ganDetected,
                           patterns |-> ad.ganPatterns,
                           confidence |-> OrElse(ad.ganConfidence, Some(75)).val],
      textureAnalysis |-> [laplacianVariance |-> StrOr(ad.laplacianVariance, "normal"),
                           smoothnessAnomalies |-> ad.smoothnessAnomalies,
                           noiseConsistency |-> StrOr(ad.noiseConsistency, "consistent")],
      metadataAnalysis |-> [hasMetadata |-> ad.hasMetadata # "false",
                            suspicious |-> ad.metadataSuspicious,
                            findings |-> ad.metadataFindings],
      observations |-> observations(ad, 8),
      robustnessTests |-> robustnessTests(ad),
      graphStats |-> graphStats(ad),
      heatmapRegions |-> heatmapRegions(ad),
      audioAnomalies |-> audioAnomalies(ad),
      frameAnalysis |-> frameAnalysis(ad, env.random),
      modalityScores |-> ms,
      multimodalConsistency |-> multimodalConsistency(trustScore, detected, ms)]

\* The bucket the earlier handler computes: it compares analysisData.trustScore
\* itself, and every comparison with undefined is false.
riskLevelOfReply(t) == IF t.has THEN riskLevelOf(t.val) ELSE "high"

\* The result of the earlier handler, which has no uncertainty, forensic or
\* consistency fields.
VariantResult(ad, mediaType, env) ==
  LET detected == detectedMediaType(mediaType)
  IN [trustScore |-> Clamp(OrElse(ad.trustScore, Some(50)).val),
      riskLevel |-> riskLevelOfReply(ad.trustScore),
      verdict |-> StrOr(ad.verdict, "Analysis Complete"),
      analysisTime |-> analysisTimeOf(env.elapsed),
      mediaType |-> detected,
      observations |-> observations(ad, 6),
      robustnessTests |-> robustnessTests(ad),
      graphStats |-> graphStats(ad),
      heatmapRegions |-> heatmapRegions(ad),
      audioAnomalies |-> audioAnomalies(ad),
      frameAnalysis |-> frameAnalysis(ad, env.random),
      modalityScores |-> modalityScores(ad, detected)]

---------------------------------------------------------------------------
(* The serve handler.                                                      *)

NoData == AnalysisData(None, None, None, None, None, None, None, None, FALSE)

\* A parsed reply with no field the handler reads.
NoReply == Reply(NoData, NoRobustness, NoDetails)

NoRequest == [method |-> "none", bodyOk |-> FALSE, imageBase64 |-> NoStr, mediaType |-> "undefined"]
NoUpstream == [kind |-> "none", status |-> 0, body |-> "none", content |-> NoStr, data |-> NoReply]
NoResponse == [status |-> 0, error |-> << >>, result |-> << >>]

\* An error message; detail is the number interpolated into it, if any.
Err(m, d) == [message |-> m, detail |-> d]

ErrorResponse(st, m, d) == [status |-> st, error |-> << Err(m, d) >>, result |-> << >>]

\* new Response(JSON.stringify(result), {headers}): the status defaults to 200.
ResultResponse(r) == [status |-> 200, error |-> << >>, result |-> << r >>]

ImageInputs ==
  { NoStr, Str(<< >>), Str(<< "iVBOR" >>), Str(<< "data:", "image/png;base64,", "iVBOR" >>) }

MediaTypeInputs == { "image", "video", "audio", "application", "undefined" }

Requests ==
  { [method |-> "OPTIONS", bodyOk |-> FALSE, imageBase64 |-> NoStr, mediaType |-> "undefined"] }
  \cup [method : {"POST"}, bodyOk : {TRUE}, imageBase64 : ImageInputs, mediaType : MediaTypeInputs]
  \cup { [method |-> "POST", bodyOk |-> FALSE, imageBase64 |-> NoStr, mediaType |-> "undefined"] }

TrustSamples == { None, Some(-20), Some(0), Some(10), Some(55), Some(85), Some(130) }
ScoreSamples == { None, Some(0), Some(40), Some(55), Some(70), Some(90) }

\* Replies that vary the trust score and the modality scores.
ScoreReplies ==
  { Reply(AnalysisData(t, v, None, None, a, None, None, None, u), NoRobustness, NoDetails) :
      t \in TrustSamples, v \in ScoreSamples, a \in ScoreSamples, u \in BOOLEAN }

CleanSamples == { None, Some(0), Some(30), Some(95) }
DriftSamples ==
  { None, Some(0), Some(-60) }
  \cup { Some(d) : d \in { 10, 11, 12, 13, 15, 16 } }
  \cup { Some(-d) : d \in { 10, 11, 12, 13, 15, 16 } }

\* Replies that vary robustnessAnalysis; the four drifts take one value.
RobustnessReplies ==
  { Reply(AnalysisData(t, None, None, None, None, None, None, None, FALSE),
          RobustnessAnalysis(c, d, d, d, d), NoDetails) :
      t \in { None, Some(0), Some(60) }, c \in CleanSamples, d \in DriftSamples }

Observation(type, title, description) ==
  [type |-> type, title |-> title, description |-> description]

ObservationSamples ==
  { << >>,
    [i \in 1..9 |-> IF i = 2 THEN Observation("", "", "")
                    ELSE Observation("concern", "Edge artifacts", "Halo at the jawline")] }

TemporalAnomaly(timestamp, severity, type) ==
  [timestamp |-> timestamp, severity |-> severity, type |-> type]

AnomalySamples ==
  { << >>,
    << TemporalAnomaly(Some(120), Some(8), "face_warp"), TemporalAnomaly(None, None, "") >>,
    [i \in 1..9 |-> TemporalAnomaly(Some(40 * i), Some(4), "edge_artifact")],
    [i \in 1..10 |-> TemporalAnomaly(Some(40 * i), Some(4), "edge_artifact")],
    [i \in 1..12 |-> TemporalAnomaly(Some(40 * i), Some(4), "edge_artifact")] }

\* Replies that vary graphStats, metadataAnalysis and the lists.
DetailReplies ==
  { Reply(AnalysisData(Some(85), None, None, None, None, None, None, None, FALSE), NoRobustness,
          ReplyDetails(k, s, h, o, t)) :
      k \in { None, Some(0), Some(31) },
      s \in { None, Some(0), Some(3) },
      h \in { "undefined", "true", "false" },
      o \in ObservationSamples,
      t \in AnomalySamples }

\* Replies with a trust score on and next to the limits of the uncertain
\* range.
BoundaryReplies ==
  { Reply(AnalysisData(Some(t), None, None, None, None, None, None, None, u),
          NoRobustness, NoDetails) : t \in { 39, 40, 70, 71 }, u \in BOOLEAN }

ReplyData == ScoreReplies \cup RobustnessReplies \cup DetailReplies \cup BoundaryReplies

UpstreamStatuses == { 200, 402, 429, 500, 503 }

\* response.ok
Ok(st) == st >= 200 /\ st <= 299

---------------------------------------------------------------------------
(* The reply text of the upstream model (content) is a tuple of tokens:    *)
(* "fence" is a line of three backquotes and "fence_json" three backquotes *)
(* followed by json; "object" is the JSON text of an object, "null" and    *)
(* "scalar" the JSON texts of null and of a number, "json" the bare word,  *)
(* "space" white space, "prose" any other text.  White space next to a     *)
(* fence is not kept: the patterns drop it.                                *)

\* The three backquotes match at either fence.
IsFence(t) == t \in { "fence", "fence_json" }

\* content.match(pattern) for a pattern that opens at one of the fences in
\* opens and captures lazily up to three backquotes: the leftmost opening
\* that has a fence after it, and the text up to the nearest such fence;
\* when the plain pattern opens at a "fence_json" the word json is left in
\* the text.  << >> when there is no match, else << group 1 >>.
MatchFence(content, opens) ==
  LET starts == { i \in 1..Len(content) :
                    /\ content[i] \in opens
                    /\ \E j \in (i + 1)..Len(content) : IsFence(content[j]) }
  IN IF starts = {} THEN << >>
     ELSE LET i == CHOOSE a \in starts : \A b \in starts : a <= b
              ends == { j \in (i + 1)..Len(content) : IsFence(content[j]) }
              j == CHOOSE a \in ends : \A b \in ends : a <= b
              left == IF opens = { "fence_json" } \/ content[i] = "fence" THEN << >> ELSE << "json" >>
          IN << left \o SubSeq(content, i + 1, j - 1) >>

\* jsonMatch = content.match(json fence) || content.match(plain fence);
\* jsonStr = jsonMatch ? jsonMatch[1] : content
ExtractJson(content) ==
  LET jsonMatch == IF MatchFence(content, { "fence_json" }) # << >>
                   THEN MatchFence(content, { "fence_json" })
                   ELSE MatchFence(content, { "fence", "fence_json" })
  IN IF jsonMatch # << >> THEN jsonMatch[1] ELSE content

\* jsonStr.trim()
Trim(jsonStr) ==
  LET inked == { i \in 1..Len(jsonStr) : jsonStr[i] # "space" }
  IN IF inked = {} THEN << >>
     ELSE SubSeq(jsonStr, CHOOSE a \in inked : \A b \in inked : a <= b,
                 CHOOSE a \in inked : \A b \in inked : a >= b)

\* JSON.parse(jsonStr.trim()): one JSON text and nothing else, or a throw.
JsonParse(jsonStr) ==
  [ok |-> Trim(jsonStr) \in { << "object" >>, << "null" >>, << "scalar" >> },
   isNull |-> Trim(jsonStr) = << "null" >>,
   isObject |-> Trim(jsonStr) = << "object" >>]

\* Reply texts whose JSON is an object.
ObjectContents ==
  { << "object" >>,
    << "fence_json", "object", "fence" >>,
    << "fence", "object", "fence" >>,
    << "prose", "fence_json", "object", "fence", "prose" >>,
    << "fence", "object", "fence_json" >>,
    << "fence", "prose", "fence", "fence_json", "object", "fence" >>,
    << "space", "object", "space" >> }

\* Reply texts of every other kind.
OtherContents ==
  { << "null" >>,
    << "fence_json", "scalar", "fence" >>,
    << "prose" >>,
    << "space" >>,
    << "prose", "object" >>,
    << "object", "prose" >>,
    << "fence_json", "object" >>,
    << "fence_json", "prose", "fence" >>,
    << "fence_json", "fence" >>,
    << "fence", "prose", "fence", "object" >> }

\* A few replies are sent in every form, the others as bare JSON.
FencedData ==
  { Reply(AnalysisData(t, None, None, None, None, None, None, None, FALSE),
          NoRobustness, NoDetails) : t \in { None, Some(0), Some(85) } }

UpstreamOutcomes ==
  { [kind |-> "network_error", status |-> 0, body |-> "none", content |-> NoStr,
     data |-> NoReply] }
  \cup { [kind |-> "http", status |-> st, body |-> "error_text", content |-> NoStr,
          data |-> NoReply] : st \in { x \in UpstreamStatuses : ~Ok(x) } }
  \cup { [kind |-> "http", status |-> 200, body |-> "invalid_json", content |-> NoStr,
          data |-> NoReply] }
  \cup { [kind |-> "http", status |-> 200, body |-> "json", content |-> c, data |-> NoReply] :
           c \in { NoStr, Str(<< >>) } \cup { Str(t) : t \in OtherContents } }
  \cup { [kind |-> "http", status |-> 200, body |-> "json", content |-> Str(c), data |-> d] :
           c \in ObjectContents, d \in FencedData }
  \cup { [kind |-> "http", status |-> 200, body |-> "json", content |-> Str(<< "object" >>),
          data |-> d] : d \in ReplyData }

\* Two runs: the elapsed milliseconds and the draws of Math.random(), in
\* twentieths.
Envs == { Env(1234, [j \in 1..30 |-> 0]), Env(2050, [j \in 1..30 |-> (7 * j) % 20]) }

\* The body of the fetch to the gateway.
UpstreamCall(req) ==
  [url |-> "https://ai.gateway.lovable.dev/v1/chat/completions",
   model |-> "google/gemini-2.5-flash",
   mediaWord |-> IF req.mediaType = "undefined" THEN "image" ELSE req.mediaType,
   imageUrl |-> IF StartsWithData(req.imageBase64.str) THEN req.imageBase64.str
                ELSE << "data:", "image/jpeg;base64," >> \o req.imageBase64.str]


\* Mutant: a 402 is not passed through.
ReplyTo_No402(u, req, env) ==
  IF u.kind = "network_error" THEN ErrorResponse(500, "fetch failed", 0)
  ELSE IF ~Ok(u.status)
  THEN IF u.status = 429
       THEN ErrorResponse(429, "Rate limit exceeded. Please try again in a moment.", 0)
       ELSE ErrorResponse(500, "AI gateway error: ", u.status)
  ELSE IF u.body = "invalid_json" THEN ErrorResponse(500, "response.json() failed", 0)
  ELSE IF ~Truthy(u.content) THEN ErrorResponse(500, "No response from AI model", 0)
  ELSE LET parsed == JsonParse(ExtractJson(u.content.str))
           analysisData == IF parsed.isObject THEN u.data ELSE NoReply
       IN IF ~parsed.ok THEN ErrorResponse(500, "Failed to parse analysis results", 0)
          ELSE IF parsed.isNull
          THEN ErrorResponse(500, "Cannot read properties of null", 0)
          ELSE ResultResponse(AnalysisResult(analysisData, req.mediaType, env))

\* Mutant: a reply that does not parse is answered with the defaults.
ReplyTo_FailOpen(u, req, env) ==
  IF u.kind = "network_error" THEN ErrorResponse(500, "fetch failed", 0)
  ELSE IF ~Ok(u.status)
  THEN IF u.status = 429
       THEN ErrorResponse(429, "Rate limit exceeded. Please try again in a moment.", 0)
       ELSE IF u.status = 402
       THEN ErrorResponse(402, "AI credits exhausted. Please add credits to continue.", 0)
       ELSE ErrorResponse(500, "AI gateway error: ", u.status)
  ELSE IF u.body = "invalid_json" THEN ErrorResponse(500, "response.json() failed", 0)
  ELSE IF ~Truthy(u.content) THEN ErrorResponse(500, "No response from AI model", 0)
  ELSE LET parsed == JsonParse(ExtractJson(u.content.str))
           analysisData == IF parsed.isObject THEN u.data ELSE NoReply
       IN IF ~parsed.ok THEN ResultResponse(AnalysisResult(NoReply, req.mediaType, env))
          ELSE IF parsed.isNull
          THEN ErrorResponse(500, "Cannot read properties of null", 0)
          ELSE ResultResponse(AnalysisResult(analysisData, req.mediaType, env))

\* Mutant: every upstream error status is passed through.
ReplyTo_PassAll(u, req, env) ==
  IF u.kind = "network_error" THEN ErrorResponse(500, "fetch failed", 0)
  ELSE IF ~Ok(u.status)
  THEN IF u.status = 429
       THEN ErrorResponse(429, "Rate limit exceeded. Please try again in a moment.", 0)
       ELSE IF u.status = 402
       THEN ErrorResponse(402, "AI credits exhausted. Please add credits to continue.", 0)
       ELSE ErrorResponse(u.status, "AI gateway error: ", u.status)
  ELSE IF u.body = "invalid_json" THEN ErrorResponse(500, "response.json() failed", 0)
  ELSE IF ~Truthy(u.content) THEN ErrorResponse(500, "No response from AI model", 0)
  ELSE LET parsed == JsonParse(ExtractJson(u.content.str))
           analysisData == IF parsed.isObject THEN u.data ELSE NoReply
       IN IF ~parsed.ok THEN ErrorResponse(500, "Failed to parse analysis results", 0)
          ELSE IF parsed.isNull
          THEN ErrorResponse(500, "Cannot read properties of null", 0)
          ELSE ResultResponse(AnalysisResult(analysisData, req.mediaType, env))

\* Mutant: an empty reply is answered with the defaults.
ReplyTo_EmptyOk(u, req, env) ==
  IF u.kind = "network_error" THEN ErrorResponse(500, "fetch failed", 0)
  ELSE IF ~Ok(u.status)
  THEN IF u.status = 429
       THEN ErrorResponse(429, "Rate limit exceeded. Please try again in a moment.", 0)
       ELSE IF u.status = 402
       THEN ErrorResponse(402, "AI credits exhausted. Please add credits to continue.", 0)
       ELSE ErrorResponse(500, "AI gateway error: ", u.status)
  ELSE IF u.body = "invalid_json" THEN ErrorResponse(500, "response.json() failed", 0)
  ELSE IF ~Truthy(u.content) THEN ResultResponse(AnalysisResult(NoReply, req.mediaType, env))
  ELSE LET parsed == JsonParse(ExtractJson(u.content.str))
           analysisData == IF parsed.isObject THEN u.data ELSE NoReply
       IN IF ~parsed.ok THEN ErrorResponse(500, "Failed to parse analysis results", 0)
          ELSE IF parsed.isNull
          THEN ErrorResponse(500, "Cannot read properties of null", 0)
          ELSE ResultResponse(AnalysisResult(analysisData, req.mediaType, env))

\* What the handler answers once the upstream call has settled with u:
\* a thrown fetch, the checks of response.ok, response.json(), the content
\* check, the parse and the result, each throw ending in the 500 of the catch.
ReplyTo(u, req, env) ==
  IF u.kind = "network_error" THEN ErrorResponse(500, "fetch failed", 0)
  ELSE IF ~Ok(u.status)
  THEN IF u.status = 429
       THEN ErrorResponse(429, "Rate limit exceeded. Please try again in a moment.", 0)
       ELSE IF u.status = 402
       THEN ErrorResponse(402, "AI credits exhausted. Please add credits to continue.", 0)
       ELSE ErrorResponse(500, "AI gateway error: ", u.status)
  ELSE IF u.body = "invalid_json" THEN ErrorResponse(500, "response.json() failed", 0)
  ELSE IF ~Truthy(u.content) THEN ErrorResponse(500, "No response from AI model", 0)
  ELSE LET parsed == JsonParse(ExtractJson(u.content.str))
           analysisData == IF parsed.isObject THEN u.data ELSE NoReply
       IN IF ~parsed.ok THEN ErrorResponse(500, "Failed to parse analysis results", 0)
          ELSE IF parsed.isNull
          THEN ErrorResponse(500, "Cannot read properties of null", 0)
          ELSE ResultResponse(AnalysisResult(analysisData, req.mediaType, env))

\* The same for the earlier handler, whose code up to the parse is the same.
VariantReplyTo(u, req, env) ==
  IF u.kind = "network_error" THEN ErrorResponse(500, "fetch failed", 0)
  ELSE IF ~Ok(u.status)
  THEN IF u.status = 429
       THEN ErrorResponse(429, "Rate limit exceeded. Please try again in a moment.", 0)
       ELSE IF u.status = 402
       THEN ErrorResponse(402, "AI credits exhausted. Please add credits to continue.", 0)
       ELSE ErrorResponse(500, "AI gateway error: ", u.status)
  ELSE IF u.body = "invalid_json" THEN ErrorResponse(500, "response.json() failed", 0)
  ELSE IF ~Truthy(u.content) THEN ErrorResponse(500, "No response from AI model", 0)
  ELSE LET parsed == JsonParse(ExtractJson(u.content.str))
           analysisData == IF parsed.isObject THEN u.data ELSE NoReply
       IN IF ~parsed.ok THEN ErrorResponse(500, "Failed to parse analysis results", 0)
          ELSE IF parsed.isNull
          THEN ErrorResponse(500, "Cannot read properties of null", 0)
          ELSE ResultResponse(VariantResult(analysisData, req.mediaType, env))

\* The CORS preflight.
ServeOptions(req) ==
  /\ pc = "idle"
  /\ req.method = "OPTIONS"
  /\ request' = req
  /\ response' = [status |-> 200, error |-> << >>, result |-> << >>]
  /\ pc' = "done"
  /\ UNCHANGED <<apiKey, outbound, upstream, fnVars, uiVars>>


\* Mutant: the credential is checked before the input.
PreFetch_KeyFirst(req, key) ==
  IF ~req.bodyOk THEN << ErrorResponse(500, "req.json() failed", 0) >>
  ELSE IF ~key THEN << ErrorResponse(500, "LOVABLE_API_KEY is not configured", 0) >>
  ELSE IF ~Truthy(req.imageBase64)
  THEN << ErrorResponse(400, "No image data provided", 0) >>
  ELSE << >>

\* Mutant: the credential is not checked.
PreFetch_NoKeyCheck(req, key) ==
  IF ~req.bodyOk THEN << ErrorResponse(500, "req.json() failed", 0) >>
  ELSE IF ~Truthy(req.imageBase64)
  THEN << ErrorResponse(400, "No image data provided", 0) >>
  ELSE << >>

\* What a POST is answered with before any upstream call: the errors of
\* req.json(), of the input check and of the credential check, in the code's
\* order; << >> when the handler goes on to the fetch.
PreFetch(req, key) ==
  IF ~req.bodyOk THEN << ErrorResponse(500, "req.json() failed", 0) >>
  ELSE IF ~Truthy(req.imageBase64)
  THEN << ErrorResponse(400, "No image data provided", 0) >>
  ELSE IF ~key THEN << ErrorResponse(500, "LOVABLE_API_KEY is not configured", 0) >>
  ELSE << >>

\* A POST, from req.json() up to a returned error or the fetch.
ServePost(req) ==
  /\ pc = "idle"
  /\ req.method = "POST"
  /\ request' = req
  /\ IF PreFetch(req, apiKey) # << >>
     THEN /\ response' = PreFetch(req, apiKey)[1]
          /\ pc' = "done"
          /\ UNCHANGED outbound
     ELSE /\ outbound' = Append(outbound, UpstreamCall(req))
          /\ pc' = "fetching"
          /\ UNCHANGED response
  /\ UNCHANGED <<apiKey, upstream, fnVars, uiVars>>

\* Mutant: a failed call is made once more.
FetchSettles_Retry(u, env) ==
  /\ pc = "fetching"
  /\ upstream' = u
  /\ IF ReplyTo(u, request, env).error # << >> /\ Len(outbound) < 2
     THEN /\ outbound' = Append(outbound, UpstreamCall(request))
          /\ UNCHANGED <<pc, response>>
     ELSE /\ response' = ReplyTo(u, request, env)
          /\ pc' = "done"
          /\ UNCHANGED outbound
  /\ UNCHANGED <<apiKey, request, fnVars, uiVars>>

\* The fetch settles with u and the handler runs to its return.
FetchSettles(u, env) ==
  /\ pc = "fetching"
  /\ upstream' = u
  /\ response' = ReplyTo(u, request, env)
  /\ pc' = "done"
  /\ UNCHANGED <<apiKey, request, outbound, fnVars, uiVars>>

\* The same step of the earlier handler.
VariantFetchSettles(u, env) ==
  /\ pc = "fetching"
  /\ upstream' = u
  /\ response' = VariantReplyTo(u, request, env)
  /\ pc' = "done"
  /\ UNCHANGED <<apiKey, request, outbound, fnVars, uiVars>>

---------------------------------------------------------------------------
(* One run of the consistency check on drawn scores.                       *)

NoConsistency ==
  [consistencyStatus |-> "none", visualScore |-> 0, audioScore |-> None,
   disagreement |-> FZero, confidenceModifier |-> 0, adjustedConfidence |-> 0,
   explanation |-> ""]

ConsistencyArgs(t, m, ms) == [trustScore |-> t, mediaType |-> m, modalityScores |-> ms]

NoRun == [by |-> "none", args |-> ConsistencyArgs(0, "image", << >>), out |-> NoConsistency]

ScoreInputs == { None } \cup { Some(n) : n \in 0..MaxScore }
TrustInputs == { None, Some(-10), Some(5), Some(50), Some(120) }

FnInputs ==
  [trustScore : TrustInputs, mediaType : MediaTypeInputs,
   visual : ScoreInputs, audio : ScoreInputs]

NoInput == [trustScore |-> None, mediaType |-> "image", visual |-> None, audio |-> None]

\* The handler builds trustScore and modalityScores from the reply and runs
\* its inline module on them.
RunInline ==
  /\ fnRun.by = "none"
  /\ LET ad == AnalysisData(fnIn.trustScore, fnIn.visual, None, None, fnIn.audio,
                            None, None, None, FALSE)
         detected == detectedMediaType(fnIn.mediaType)
         ms == modalityScores(ad, detected)
         trustScore == trustScoreOf(ad)
     IN fnRun' = [by |-> "handler",
                  args |-> ConsistencyArgs(trustScore, detected, ms),
                  out |-> multimodalConsistency(trustScore, detected, ms)]
  /\ UNCHANGED <<handlerVars, fnIn, uiVars>>

\* The client calls computeConsistencyCheck(trustScore, mediaType, modalityScores).
RunClient ==
  /\ fnRun.by = "none"
  /\ fnIn.trustScore.has
  /\ fnIn.mediaType \in {"image", "video", "audio"}
  /\ LET ms == (IF fnIn.visual.has
                THEN << ModalityScore("visual", fnIn.visual.val, 35) >> ELSE << >>)
               \o (IF fnIn.audio.has
                   THEN << ModalityScore("audio", fnIn.audio.val, 20) >> ELSE << >>)
     IN fnRun' = [by |-> "client",
                  args |-> ConsistencyArgs(fnIn.trustScore.val, fnIn.mediaType, ms),
                  out |-> computeConsistencyCheck(fnIn.trustScore.val, fnIn.mediaType, ms)]
  /\ UNCHANGED <<handlerVars, fnIn, uiVars>>

---------------------------------------------------------------------------
(* The page: MediaUpload, DemoSection and the useMediaAnalysis hook.       *)

\* A File: its name and its type split at the slash.
File(name, type) == [name |-> name, type |-> type]

NoFile == File("", << >>)

Files == { File("photo.png", << "image", "png" >>), File("clip.mp4", << "video", "mp4" >>) }

\* selectedFile.type.startsWith("image/")
IsImage(f) == Len(f.type) > 0 /\ f.type[1] = "image"

\* One analyzeMedia call: the file it was given, how far it has run (reading,
\* invoking, done) and how it ended (pending, ok, failed); cleared records
\* that reset() was called while it was running.
Call(f, stage, outcome, cleared) ==
  [file |-> f, stage |-> stage, outcome |-> outcome, cleared |-> cleared]

InFlight == { i \in 1..Len(calls) : calls[i].stage # "done" }

\* The body of supabase.functions.invoke("analyze-media", ...) of a call.
InvokeBody(f) == [imageBase64 |-> << "data:", f.name >>, mediaType |-> f.type[1]]

\* What invoke resolves to: fnError (with a message or an empty one) or data,
\* which is null, an object with an error field, or a result.
InvokeOutcomes ==
  { [fnError |-> << "Edge Function returned a non-2xx status code" >>, data |-> "null"],
    [fnError |-> << "" >>, data |-> "null"],
    [fnError |-> << >>, data |-> "null"],
    [fnError |-> << >>, data |-> "error"],
    [fnError |-> << >>, data |-> "result"] }

\* The message the catch of analyzeMedia stores for an outcome that throws.
ThrownMessage(o) ==
  IF o.fnError # << >>
  THEN (IF o.fnError[1] = "" THEN "Analysis failed" ELSE o.fnError[1])
  ELSE IF o.data = "null" THEN "Cannot read properties of null"
  ELSE "No image data provided"

\* handleFile(selectedFile), from the file input or a drop.
handleFile(f) ==
  /\ file' = f
  /\ IF IsImage(f)
     THEN /\ readers' = readers \cup { f.name }
          /\ UNCHANGED preview
     ELSE /\ preview' = ""
          /\ UNCHANGED readers
  /\ UNCHANGED <<isAnalyzing, result, error, calls>>

\* reader.onload of a preview read: setPreview.
PreviewLoads(name) ==
  /\ name \in readers
  /\ readers' = readers \ { name }
  /\ preview' = name
  /\ UNCHANGED <<file, isAnalyzing, result, error, calls>>

\* The X button, rendered on the preview: clearFile() and through onClear
\* handleClear() and reset().
clearFile ==
  /\ preview # ""
  /\ file' = NoFile
  /\ preview' = ""
  /\ result' = << >>
  /\ error' = << >>
  /\ calls' = [i \in 1..Len(calls) |->
                 IF calls[i].stage # "done"
                 THEN Call(calls[i].file, calls[i].stage, calls[i].outcome, TRUE)
                 ELSE calls[i]]
  /\ UNCHANGED <<readers, isAnalyzing>>

\* Mutant: the button is not disabled while an analysis runs.
handleAnalyzeClick_Enabled ==
  /\ file # NoFile
  /\ Len(calls) < MaxCalls
  /\ isAnalyzing' = TRUE
  /\ error' = << >>
  /\ result' = << >>
  /\ calls' = Append(calls, Call(file, "reading", "pending", FALSE))
  /\ UNCHANGED <<file, preview, readers>>

\* Mutant: analyzeMedia does not clear the last result.
handleAnalyzeClick_KeepResult ==
  /\ file # NoFile
  /\ ~isAnalyzing
  /\ Len(calls) < MaxCalls
  /\ isAnalyzing' = TRUE
  /\ error' = << >>
  /\ calls' = Append(calls, Call(file, "reading", "pending", FALSE))
  /\ UNCHANGED <<file, preview, readers, result>>

\* A click on the Analyze button (disabled = !file || isAnalyzing):
\* handleAnalyzeClick, handleAnalyze and analyzeMedia up to its first await.
handleAnalyzeClick ==
  /\ file # NoFile
  /\ ~isAnalyzing
  /\ Len(calls) < MaxCalls
  /\ isAnalyzing' = TRUE
  /\ error' = << >>
  /\ result' = << >>
  /\ calls' = Append(calls, Call(file, "reading", "pending", FALSE))
  /\ UNCHANGED <<file, preview, readers>>

\* Mutant: a file that cannot be read leaves isAnalyzing set.
ReadSettles_NoFinally(i, ok) ==
  /\ i \in 1..Len(calls)
  /\ calls[i].stage = "reading"
  /\ IF ok
     THEN /\ calls' = [calls EXCEPT ![i].stage = "invoking"]
          /\ UNCHANGED <<isAnalyzing, result, error>>
     ELSE /\ calls' = [calls EXCEPT ![i].stage = "done", ![i].outcome = "failed"]
          /\ error' = << [request |-> i, message |-> "Analysis failed"] >>
          /\ UNCHANGED <<isAnalyzing, result>>
  /\ UNCHANGED <<file, preview, readers>>

\* The FileReader of call i settles: on load the invoke is sent, on error
\* the catch and the finally run (the rejection is an event, not an Error).
ReadSettles(i, ok) ==
  /\ i \in 1..Len(calls)
  /\ calls[i].stage = "reading"
  /\ IF ok
     THEN /\ calls' = [calls EXCEPT ![i].stage = "invoking"]
          /\ UNCHANGED <<isAnalyzing, result, error>>
     ELSE /\ calls' = [calls EXCEPT ![i].stage = "done", ![i].outcome = "failed"]
          /\ error' = << [request |-> i, message |-> "Analysis failed"] >>
          /\ isAnalyzing' = FALSE
          /\ UNCHANGED result
  /\ UNCHANGED <<file, preview, readers>>

\* The invoke of call i settles with o and analyzeMedia runs to its end:
\* setResult(data), or the catch, then the finally.
InvokeSettles(i, o) ==
  /\ i \in 1..Len(calls)
  /\ calls[i].stage = "invoking"
  /\ IF o.fnError = << >> /\ o.data = "result"
     THEN /\ calls' = [calls EXCEPT ![i].stage = "done", ![i].outcome = "ok"]
          /\ result' = << [request |-> i, body |-> InvokeBody(calls[i].file)] >>
          /\ UNCHANGED error
     ELSE /\ calls' = [calls EXCEPT ![i].stage = "done", ![i].outcome = "failed"]
          /\ error' = << [request |-> i, message |-> ThrownMessage(o)] >>
          /\ UNCHANGED result
  /\ isAnalyzing' = FALSE
  /\ UNCHANGED <<file, preview, readers>>

---------------------------------------------------------------------------
(* Specifications.                                                         *)

HandlerIdle ==
  /\ pc = "idle"
  /\ request = NoRequest
  /\ outbound = << >>
  /\ upstream = NoUpstream
  /\ response = NoResponse

\* The page before any file is chosen.
UiIdle ==
  /\ file = NoFile
  /\ preview = ""
  /\ readers = {}
  /\ isAnalyzing = FALSE
  /\ result = << >>
  /\ error = << >>
  /\ calls = << >>

\* The handler, one request.
Init ==
  /\ UiIdle
  /\ HandlerIdle
  /\ apiKey \in BOOLEAN
  /\ fnIn = NoInput
  /\ fnRun = NoRun

Next ==
  \/ \E req \in Requests : ServeOptions(req)
  \/ \E req \in Requests : ServePost(req)
  \/ \E u \in UpstreamOutcomes, env \in Envs : FetchSettles(u, env)

Spec == Init /\ [][Next]_vars

\* The earlier handler, one request.
NextVariant ==
  \/ \E req \in Requests : ServeOptions(req)
  \/ \E req \in Requests : ServePost(req)
  \/ \E u \in UpstreamOutcomes, env \in Envs : VariantFetchSettles(u, env)

SpecVariant == Init /\ [][NextVariant]_vars

\* The consistency check, on every pair of scores.
InitFn ==
  /\ UiIdle
  /\ HandlerIdle
  /\ apiKey = TRUE
  /\ fnIn \in FnInputs
  /\ fnRun = NoRun

NextFn == RunInline \/ RunClient

SpecFn == InitFn /\ [][NextFn]_vars

\* The page: any order of choosing, clearing and analysing files.
InitUi ==
  /\ UiIdle
  /\ HandlerIdle
  /\ apiKey = TRUE
  /\ fnIn = NoInput
  /\ fnRun = NoRun

Settle ==
  \/ \E i \in 1..MaxCalls, ok \in BOOLEAN : ReadSettles(i, ok) /\ UNCHANGED <<handlerVars, fnVars>>
  \/ \E i \in 1..MaxCalls, o \in InvokeOutcomes :
       InvokeSettles(i, o) /\ UNCHANGED <<handlerVars, fnVars>>

NextUi ==
  \/ \E f \in Files : handleFile(f) /\ UNCHANGED <<handlerVars, fnVars>>
  \/ \E name \in { f.name : f \in Files } : PreviewLoads(name) /\ UNCHANGED <<handlerVars, fnVars>>
  \/ clearFile /\ UNCHANGED <<handlerVars, fnVars>>
  \/ handleAnalyzeClick /\ UNCHANGED <<handlerVars, fnVars>>
  \/ Settle

SpecUi == InitUi /\ [][NextUi]_vars

\* The same with every file read and every request settling.
SpecUiFair == SpecUi /\ WF_vars(Settle)

---------------------------------------------------------------------------
(* Properties of the consistency check, under SpecFn.                      *)

Ran == fnRun.by # "none"
ArgVisual == FindScore(fnRun.args.modalityScores, "visual")
ArgAudio == FindScore(fnRun.args.modalityScores, "audio")

\* The run had a visual and an audio score to compare.
HasBoth == Ran /\ fnRun.args.mediaType # "image" /\ ArgVisual.has /\ ArgAudio.has

\* d = |visual / 100 - audio / 100|, evaluated as the code evaluates it.
ArgD == FAbsDiff(FDiv(ArgVisual.val, 100), FDiv(ArgAudio.val, 100))

\* |visual - audio|, in exact integer arithmetic.
ArgGap == Abs(ArgVisual.val - ArgAudio.val)

C3_Consistent ==
  (HasBoth /\ (~FGeq(ArgD, FDiv(15, 100)) \/ ArgGap < 15))
    => /\ fnRun.out.consistencyStatus = "consistent"
       /\ fnRun.out.confidenceModifier = 0
       /\ fnRun.out.adjustedConfidence = Clamp(fnRun.args.trustScore)

C3_Witness ==
  /\ HasBoth
  /\ fnRun.by = "client"
  /\ ArgVisual.val = 70 /\ ArgAudio.val = 60
  /\ fnRun.args.trustScore = 120
  /\ fnRun.out.consistencyStatus = "consistent"
  /\ fnRun.out.adjustedConfidence = 100

\* C4: on every branch and for every trust score the model supplies (absent,
\* negative, above 100), adjustedConfidence = clamp(trustScore +
\* confidenceModifier, 0, 100), trustScore being the score the check was
\* given (the result's trustScore in the handler), and so lies in 0..100.
C4_AdjustedClamped ==
  Ran => /\ fnRun.out.adjustedConfidence
              = Clamp(fnRun.args.trustScore + fnRun.out.confidenceModifier)
         /\ fnRun.out.adjustedConfidence \in 0..100

C4_Witness ==
  /\ fnRun.by = "handler"
  /\ fnIn.trustScore = Some(120)
  /\ fnRun.out.consistencyStatus = "single_modality"
  /\ fnRun.out.adjustedConfidence = 100

\* C5: for an image (in the handler: any requested mediaType other than
\* "video" and "audio") or when no audio score exists, the result is
\* "single_modality" with modifier 0, disagreement 0 and audioScore null,
\* whatever the scores and the trust score.
C5_SingleModality ==
  (Ran /\ \/ fnRun.args.mediaType = "image"
          \/ ~ArgAudio.has
          \/ fnRun.by = "handler" /\ fnIn.mediaType \notin {"video", "audio"})
    => /\ fnRun.out.consistencyStatus = "single_modality"
       /\ fnRun.out.confidenceModifier = 0
       /\ fnRun.out.disagreement = FZero
       /\ fnRun.out.audioScore = None

C5_Witness ==
  /\ fnRun.by = "handler"
  /\ fnIn.mediaType = "application"
  /\ fnIn.visual = Some(90) /\ fnIn.audio = Some(10)
  /\ fnRun.out.consistencyStatus = "single_modality"

\* C7: the thresholds are inclusive on the integer scores: |visual - audio|
\* = 30 gives "inconsistent", modifier -15 and adjustedConfidence
\* max(0, trustScore - 15); |visual - audio| = 15 gives
\* "partially_consistent"; the result depends only on |visual - audio|.
InRange == ArgVisual.val \in 0..100 /\ ArgAudio.val \in 0..100

C7_InclusiveThresholds ==
  /\ (HasBoth /\ InRange /\ ArgGap = 30)
       => /\ fnRun.out.consistencyStatus = "inconsistent"
          /\ fnRun.out.confidenceModifier = -15
          /\ fnRun.args.trustScore \in 0..100
               => fnRun.out.adjustedConfidence
                    = (IF fnRun.args.trustScore < 15 THEN 0 ELSE fnRun.args.trustScore - 15)
  /\ (HasBoth /\ InRange /\ ArgGap = 15)
       => fnRun.out.consistencyStatus = "partially_consistent"

---------------------------------------------------------------------------
(* Properties of the handler, under Spec.                                  *)

Answered == pc = "done" /\ request.method = "POST"
Succeeded == Answered /\ response.result # << >>
Consistency == response.result[1].multimodalConsistency

\* C6: a request whose media has a single modality (an image upload, or an
\* audio-only upload with mediaType "audio") gets consistencyStatus
\* "single_modality" with confidenceModifier 0: no penalty is applied to it.
C6_SingleModalityUpload ==
  (Succeeded /\ request.mediaType \in {"image", "audio"})
    => /\ Consistency.consistencyStatus = "single_modality"
       /\ Consistency.confidenceModifier = 0
       /\ Consistency.adjustedConfidence = response.result[1].trustScore

\* C8: a POST whose body has no imageBase64, or an empty one, is answered
\* 400 {error: "No image data provided"}, with or without the credential,
\* and no upstream call is made for it.
C8_MissingInput ==
  (Answered /\ request.bodyOk /\ ~Truthy(request.imageBase64))
    => /\ response = ErrorResponse(400, "No image data provided", 0)
       /\ outbound = << >>

C8_Witness ==
  /\ Answered /\ request.bodyOk
  /\ request.imageBase64 = Str(<< >>)
  /\ ~apiKey
  /\ response.status = 400
  /\ outbound = << >>

\* C9: an upstream call is made only when imageBase64 is present and the
\* credential is configured; a missing credential is answered 500 without
\* any upstream call.
C9_CallAfterChecks ==
  /\ outbound # << >> => (request.bodyOk /\ Truthy(request.imageBase64) /\ apiKey)
  /\ (Answered /\ request.bodyOk /\ Truthy(request.imageBase64) /\ ~apiKey)
       => /\ response = ErrorResponse(500, "LOVABLE_API_KEY is not configured", 0)
          /\ outbound = << >>

C9_Witness ==
  /\ Answered /\ request.bodyOk
  /\ Truthy(request.imageBase64)
  /\ ~apiKey
  /\ response.status = 500
  /\ outbound = << >>

\* C10: an upstream 429 is answered 429 and an upstream 402 is answered 402,
\* each with its own error message and no analysis field; every other
\* non-OK upstream status is answered 500.
C10_Passthrough ==
  (Answered /\ upstream.kind = "http" /\ ~Ok(upstream.status))
    => /\ response.result = << >>
       /\ Len(response.error) = 1
       /\ upstream.status = 429
            => response = ErrorResponse(429, "Rate limit exceeded. Please try again in a moment.", 0)
       /\ upstream.status = 402
            => response = ErrorResponse(402, "AI credits exhausted. Please add credits to continue.", 0)
       /\ upstream.status \notin {429, 402} => response.status = 500

C10_Witness ==
  /\ Answered
  /\ upstream.kind = "http" /\ upstream.status = 402
  /\ response.status = 402
  /\ response.result = << >>

---------------------------------------------------------------------------
(* Properties of the responses, under Spec and SpecVariant.                *)

Result == response.result[1]

\* The upstream call answered 2xx with a JSON body.
Replied == upstream.kind = "http" /\ Ok(upstream.status) /\ upstream.body = "json"

\* The reply text reached JSON.parse and JSON.parse threw.
ParseFailed ==
  Replied /\ Truthy(upstream.content) /\ ~JsonParse(ExtractJson(upstream.content.str)).ok

\* C11: whenever the reply text, after the inside of an optional fence has
\* been taken, is not parseable as JSON, the response is 500 with the error
\* "Failed to parse analysis results" and carries no result; the inside of
\* a json fence or of a plain fence that is JSON is parsed.
C11_FailClosed ==
  /\ (Answered /\ ParseFailed)
       => response = ErrorResponse(500, "Failed to parse analysis results", 0)
  /\ (Answered /\ Replied
        /\ upstream.content \in { Str(<< "prose" >>), Str(<< "space" >>),
                                  Str(<< "prose", "object" >>),
                                  Str(<< "fence_json", "prose", "fence" >>),
                                  Str(<< "fence_json", "object" >>) })
       => /\ response.status = 500
          /\ response.result = << >>
  /\ (Answered /\ Replied
        /\ upstream.content \in { Str(<< "fence_json", "object", "fence" >>),
                                  Str(<< "fence", "object", "fence" >>) })
       => response.status = 200

C11_Witness ==
  /\ Answered /\ Replied
  /\ upstream.content = Str(<< "fence_json", "prose", "fence" >>)
  /\ response.status = 500
  /\ response.error[1].message = "Failed to parse analysis results"
  /\ response.result = << >>

\* The fields of the AnalysisResult schema.
SchemaFields ==
  { "trustScore", "riskLevel", "verdict", "analysisTime", "mediaType", "uncertaintyFlag",
    "uncertaintyReason", "ganFingerprints", "textureAnalysis", "metadataAnalysis",
    "observations", "robustnessTests", "graphStats", "heatmapRegions", "audioAnomalies",
    "frameAnalysis", "modalityScores", "multimodalConsistency" }

\* C12: every response to a POST is either status 200 with a result that
\* has every field of the schema and no error, or an error alone with
\* status 400, 429, 402 or 500.
C12_ResultOrError ==
  Answered
    => \/ /\ response.status = 200
          /\ response.error = << >>
          /\ Len(response.result) = 1
          /\ DOMAIN Result = SchemaFields
       \/ /\ response.status \in { 400, 429, 402, 500 }
          /\ Len(response.error) = 1
          /\ response.result = << >>

C12_Witness ==
  /\ Answered
  /\ upstream.kind = "http" /\ upstream.status = 503
  /\ response.status = 500
  /\ Len(response.error) = 1
  /\ response.result = << >>

\* The request never reached the fetch because the credential is missing.
KeyMissing == request.bodyOk /\ Truthy(request.imageBase64) /\ ~apiKey

Caught ==
  \/ ~request.bodyOk
  \/ KeyMissing
  \/ upstream.kind = "network_error"
  \/ upstream.kind = "http" /\ ~Ok(upstream.status) /\ upstream.status \notin { 429, 402 }
  \/ upstream.kind = "http" /\ Ok(upstream.status) /\ upstream.body = "invalid_json"
  \/ Replied /\ ~Truthy(upstream.content)
  \/ ParseFailed
  \/ Replied /\ Truthy(upstream.content) /\ JsonParse(ExtractJson(upstream.content.str)).isNull

UpstreamFailed ==
  \/ upstream.kind = "network_error"
  \/ upstream.kind = "http" /\ ~Ok(upstream.status)
  \/ upstream.kind = "http" /\ Ok(upstream.status) /\ upstream.body = "invalid_json"
  \/ Replied /\ ~Truthy(upstream.content)
  \/ ParseFailed

\* C14: at most one call is made to the upstream model for a request, and
\* a failed call is not repeated: the request ends with an error response.
C14_SingleCall ==
  /\ Len(outbound) <= 1
  /\ UpstreamFailed
       => /\ pc = "done"
          /\ response.error # << >>
          /\ response.result = << >>
          /\ Len(outbound) = 1

C14_Witness ==
  /\ pc = "done"
  /\ upstream.kind = "http" /\ upstream.status = 500
  /\ response.status = 500
  /\ Len(outbound) = 1

\* C15: a 0 in the reply is replaced by the fallback: trustScore 0 gives
\* trustScore 50, riskLevel "medium" and uncertaintyFlag true; a
\* suspiciousNodes of 0 gives what an absent one gives; a drift of 0 gives
\* the negative default of its row.
C15_ZeroDefaults ==
  Succeeded
    => /\ upstream.data.trustScore = Some(0)
            => /\ Result.trustScore = 50
               /\ Result.riskLevel = "medium"
               /\ Result.uncertaintyFlag
       /\ upstream.data.suspiciousNodes \in { None, Some(0) }
            => Result.graphStats.suspiciousNodes = 0
       /\ upstream.data.compressionResilience = Some(0) => Result.robustnessTests[2].drift = -5
       /\ upstream.data.degradationResilience = Some(0) => Result.robustnessTests[3].drift = -8
       /\ upstream.data.motionSensitivity = Some(0) => Result.robustnessTests[4].drift = -18
       /\ upstream.data.noiseTolerance = Some(0) => Result.robustnessTests[5].drift = -7

C15_Witness ==
  /\ Succeeded
  /\ upstream.data.trustScore = Some(0)
  /\ upstream.data.compressionResilience = Some(0)
  /\ Result.trustScore = 50
  /\ Result.riskLevel = "medium"
  /\ Result.robustnessTests[2].drift = -5

\* C16: the trustScore of every result lies in 0..100: a negative score
\* of the model gives 0, a score above 100 gives 100.
C16_TrustInRange ==
  Succeeded
    => /\ Result.trustScore \in 0..100
       /\ (upstream.data.trustScore.has /\ upstream.data.trustScore.val < 0)
            => Result.trustScore = 0
       /\ (upstream.data.trustScore.has /\ upstream.data.trustScore.val > 100)
            => Result.trustScore = 100

C16_Witness ==
  /\ Succeeded
  /\ upstream.data.trustScore = Some(130)
  /\ Result.trustScore = 100

\* C17: in every result riskLevel is the bucket of the trustScore of the
\* same result: "low" from 70, "medium" from 40 to below 70, "high" below 40.
C17_RiskBucket ==
  Succeeded
    => /\ Result.riskLevel = "low" <=> Result.trustScore >= 70
       /\ Result.riskLevel = "medium" <=> (Result.trustScore >= 40 /\ Result.trustScore < 70)
       /\ Result.riskLevel = "high" <=> Result.trustScore < 40

\* C18: robustnessTests is the five rows Clean, Compressed, Degraded,
\* Motion, Noise; Clean has drift 0 and status "pass"; every other row is
\* "pass" exactly when |drift| is at most 10, 12, 15, 10, else "warning",
\* never "fail", and its confidence is at least 40.
C18_RobustnessRows ==
  Succeeded
    => LET rows == Result.robustnessTests
           limit == << 0, 10, 12, 15, 10 >>
       IN /\ Len(rows) = 5
          /\ << rows[1].mode, rows[2].mode, rows[3].mode, rows[4].mode, rows[5].mode >>
               = << "Clean", "Compressed", "Degraded", "Motion", "Noise" >>
          /\ rows[1].drift = 0
          /\ rows[1].status = "pass"
          /\ \A i \in 2..5 :
               /\ rows[i].status = (IF Abs(rows[i].drift) <= limit[i] THEN "pass" ELSE "warning")
               /\ rows[i].confidence >= 40

C18_Witness ==
  /\ Succeeded
  /\ upstream.data.motionSensitivity = Some(-15)
  /\ Result.robustnessTests[4].status = "pass"
  /\ Result.robustnessTests[2].status = "warning"
  /\ Result.robustnessTests[2].confidence = 40

\* C19: the modalities of a result and their weights follow from the
\* detected media type alone; the returned mediaType is the requested one
\* when that is video or audio and image otherwise.
C19_ModalitiesByType ==
  Succeeded
    => LET ms == Result.modalityScores
           listed == [i \in 1..Len(ms) |-> << ms[i].modality, ms[i].weight >>]
       IN /\ Result.mediaType
               = (IF request.mediaType \in { "video", "audio" } THEN request.mediaType
                  ELSE "image")
          /\ Result.mediaType = "image"
               => listed = << << "visual", 35 >>, << "structural", 25 >> >>
          /\ Result.mediaType = "audio"
               => listed = << << "visual", 35 >>, << "structural", 25 >>, << "audio", 20 >> >>
          /\ Result.mediaType = "video"
               => listed = << << "visual", 35 >>, << "structural", 25 >>, << "audio", 20 >>,
                             << "temporal", 20 >> >>

C19_Witness ==
  /\ Succeeded
  /\ request.mediaType = "application"
  /\ Result.mediaType = "image"
  /\ Len(Result.modalityScores) = 2

\* The token that stands for the content of the uploaded file.
MediaPayload == "iVBOR"

Carries(text) == \E i \in 1..Len(text) : text[i] = MediaPayload

\* C20: the uploaded media never leaves the browser: neither the request
\* the edge function receives nor any call to the upstream model carries
\* the media payload.
C20_MediaStaysLocal ==
  /\ ~Carries(request.imageBase64.str)
  /\ \A i \in 1..Len(outbound) : ~Carries(outbound[i].imageUrl)

\* The trust score the handler derives from the reply alone.
ReplyTrust ==
  IF upstream.data.trustScore.has /\ upstream.data.trustScore.val # 0
  THEN (IF upstream.data.trustScore.val < 0 THEN 0
        ELSE IF upstream.data.trustScore.val > 100 THEN 100
        ELSE upstream.data.trustScore.val)
  ELSE 50

\* C21: the consistency check only reads the scores: trustScore and
\* riskLevel of the result follow from the trust score of the reply alone,
\* whatever the consistency status, and the visual and audio scores the
\* check reports are those of modalityScores; the penalty shows only in
\* confidenceModifier and adjustedConfidence.
C21_ReadOnly ==
  Succeeded
    => /\ Result.trustScore = ReplyTrust
       /\ Result.riskLevel
            = (IF ReplyTrust >= 70 THEN "low" ELSE IF ReplyTrust >= 40 THEN "medium" ELSE "high")
       /\ Consistency.visualScore = Result.modalityScores[1].score
       /\ Consistency.audioScore.has
            => Consistency.audioScore.val = Result.modalityScores[3].score
       /\ Consistency.confidenceModifier
            = (IF Consistency.consistencyStatus = "inconsistent" THEN -15
               ELSE IF Consistency.consistencyStatus = "partially_consistent" THEN -7
               ELSE 0)
       /\ Consistency.adjustedConfidence
            = (IF ReplyTrust + Consistency.confidenceModifier < 0 THEN 0
               ELSE ReplyTrust + Consistency.confidenceModifier)

C21_Witness ==
  /\ Succeeded
  /\ Consistency.consistencyStatus = "inconsistent"
  /\ Result.trustScore = 85
  /\ Result.riskLevel = "low"
  /\ Consistency.adjustedConfidence = 70

\* C22: a result whose trustScore lies in 40..70 has uncertaintyFlag true
\* whatever flag the reply carried, and UncertaintyIndicator renders for a
\* result exactly when the reply set the flag or the trustScore lies in
\* 40..70.
C22_UncertainRange ==
  Succeeded
    => /\ (Result.trustScore >= 40 /\ Result.trustScore <= 70) => Result.uncertaintyFlag
       /\ isUncertain(Result.trustScore, Result.uncertaintyFlag)
            <=> (upstream.data.uncertaintyFlag
                   \/ (Result.trustScore >= 40 /\ Result.trustScore <= 70))

C22_Witness ==
  /\ Succeeded
  /\ upstream.data.trustScore = Some(70)
  /\ ~upstream.data.uncertaintyFlag
  /\ Result.uncertaintyFlag
  /\ isUncertain(Result.trustScore, Result.uncertaintyFlag)

C28_ClientEqualsHandler ==
  Succeeded
    => LET client == computeConsistencyCheck(Result.trustScore, Result.mediaType,
                                             Result.modalityScores)
       IN /\ client.consistencyStatus = Consistency.consistencyStatus
          /\ client.visualScore = Consistency.visualScore
          /\ client.audioScore = Consistency.audioScore
          /\ client.disagreement = Consistency.disagreement
          /\ client.confidenceModifier = Consistency.confidenceModifier
          /\ client.adjustedConfidence = Consistency.adjustedConfidence
          /\ client.explanation = Consistency.explanation

C28_Witness ==
  /\ Succeeded
  /\ Consistency.consistencyStatus = "partially_consistent"
  /\ computeConsistencyCheck(Result.trustScore, Result.mediaType, Result.modalityScores)
       = Consistency

---------------------------------------------------------------------------
(* Properties of the page, under SpecUi and SpecUiFair.                    *)

\* C23: the result the hook holds never comes from an analysis that was
\* running when reset() was called.
C23_ClearedStaysCleared ==
  result # << >> => ~calls[result[1].request].cleared

\* C24: at most one analysis is in flight, also after the file was cleared
\* or replaced during an analysis; while one is in flight isAnalyzing is
\* true, which disables the Analyze button.
C24_OneInFlight ==
  /\ Cardinality(InFlight) <= 1
  /\ InFlight # {} => isAnalyzing

C24_Witness ==
  /\ Len(calls) = 2
  /\ calls[2].stage = "invoking"
  /\ calls[2].cleared
  /\ file = File("clip.mp4", << "video", "mp4" >>)
  /\ isAnalyzing

\* Call i ends with a step, in the way how.
Ends(i, how) ==
  /\ i <= Len(calls)
  /\ calls[i].stage # "done"
  /\ calls'[i].stage = "done"
  /\ calls'[i].outcome = how

\* C25: result and error are never both set; a result is that of the last
\* analysis started, which succeeded, and an error that of the last one,
\* which failed; a success leaves result set and error null, a failure
\* error set and result null.
C25_ResultXorError ==
  /\ [](/\ ~(result # << >> /\ error # << >>)
        /\ result # << >>
             => /\ result[1].request = Len(calls)
                /\ calls[Len(calls)].outcome = "ok"
        /\ error # << >>
             => /\ error[1].request = Len(calls)
                /\ calls[Len(calls)].outcome = "failed")
  /\ [][\A i \in 1..MaxCalls :
          /\ Ends(i, "ok") => (result' # << >> /\ error' = << >>)
          /\ Ends(i, "failed") => (error' # << >> /\ result' = << >>)]_vars

C25_Witness ==
  /\ Len(calls) = 2
  /\ calls[1].outcome = "ok"
  /\ calls[2].outcome = "failed"
  /\ error # << >>
  /\ result = << >>

\* C26: isAnalyzing is true exactly while an analyzeMedia call is running,
\* and, every file read and request settling, it always becomes false again.
C26_AnalyzingEnds ==
  /\ [](isAnalyzing <=> InFlight # {})
  /\ isAnalyzing ~> ~isAnalyzing

C26_Witness ==
  /\ Len(calls) = 1
  /\ calls[1].stage = "done"
  /\ calls[1].outcome = "failed"
  /\ error = << [request |-> 1, message |-> "Analysis failed"] >>
  /\ ~isAnalyzing

====
